---- MODULE Spec2Model ----
(***************************************************************************)
(* Model of the OpenData-style statistics indexer (src/src/stats.ts) and   *)
(* of its caller (src/src/run.ts).                                         *)
(*                                                                         *)
(* Strings that the code builds or parses (field names, statistic names,   *)
(* the aliases "<field>_<statistic>") are sequences of one-character       *)
(* strings, so that building an alias and parsing it back with the regular *)
(* expression of the merge loop are two different computations.            *)
(* A JavaScript object used as a dictionary is a function whose DOMAIN is  *)
(* the set of its own keys; what it inherits from Object.prototype is      *)
(* modelled by ObjectPrototypeKeys and objectPrototype.                    *)
(***************************************************************************)
EXTENDS Integers, Sequences, FiniteSets, TLC

(***************************************************************************)
(* Bounds of the model.                                                    *)
(***************************************************************************)
MaxFields == 2      \* fields in the schema served by the layer
MaxKeys   == 2      \* keys in the attribute map of a batch response
MaxRows   == 2      \* rows of a grouped response handed to the reduction
MaxCount  == 2      \* largest count reported for one group
MaxRuns   == 2      \* runs the caller starts one after the other
RunFields == 1      \* fields in the schema when several runs are started
MaxLen    == 4      \* length of the array handed to chunk
MaxSize   == 3      \* batch size handed to chunk

(***************************************************************************)
(* Program constants.                                                      *)
(***************************************************************************)
STATS_BATCH_SIZE == 1
SLEEP_MS == 500

(***************************************************************************)
(* Strings as character sequences.                                         *)
(***************************************************************************)
Lower ==
  {"a","b","c","d","e","f","g","h","i","j","k","l","m",
   "n","o","p","q","r","s","t","u","v","w","x","y","z"}

n_a           == <<"a">>
n_value_count == <<"v","a","l","u","e","_","c","o","u","n","t">>
n_constructor == <<"c","o","n","s","t","r","u","c","t","o","r">>

s_min   == <<"m","i","n">>
s_max   == <<"m","a","x">>
s_avg   == <<"a","v","g">>
s_sum   == <<"s","u","m">>
s_count == <<"c","o","u","n","t">>

\* Field names the layer may use.  n_constructor is a name that every
\* JavaScript object inherits; n_value_count is the alias of the grouped query.
Names == {n_a, n_value_count, n_constructor}

\* Own-less keys every object literal {} answers with a truthy value.
ObjectPrototypeKeys == {n_constructor}

\* Raw type tags of the layer's fields.
TypeTags ==
  {"esriFieldTypeInteger", "esriFieldTypeDate", "esriFieldTypeOID",
   "esriFieldTypeString", "esriFieldTypeGeometry"}

\* The null group value of a grouped response.
null == "null"

\* Group values a grouped response may report.
GroupValues == {"CA", null}

\* HTTP statuses the remote may answer with.
Statuses == {200, 404, 500}

(***************************************************************************)
(* Pure helpers of getOpenDataStyleStatistics.                             *)
(***************************************************************************)
isObjectId(type) == type = "esriFieldTypeOID"

isNumeric(type) ==
  \/ type = "esriFieldTypeInteger"
  \/ type = "esriFieldTypeSmallInteger"
  \/ type = "esriFieldTypeDouble"
  \/ type = "esriFieldTypeSingle"

isDate(type) == type = "esriFieldTypeDate"

isString(type) == type = "esriFieldTypeString"

\* The filter with the date tag left out.
filterPredicateNoDate(f) ==
  LET t == f.type IN
    \/ t = "esriFieldTypeInteger"
    \/ t = "esriFieldTypeSmallInteger"
    \/ t = "esriFieldTypeDouble"
    \/ t = "esriFieldTypeSingle"
    \/ t = "esriFieldTypeOID"

\* The predicate of fields.filter(...) at the top of the function.
filterPredicate(f) ==
  LET t == f.type IN
    \/ t = "esriFieldTypeInteger"
    \/ t = "esriFieldTypeSmallInteger"
    \/ t = "esriFieldTypeDouble"
    \/ t = "esriFieldTypeSingle"
    \/ t = "esriFieldTypeDate"
    \/ t = "esriFieldTypeOID"

numericOrDateOrObjectIdFields(fs) == SelectSeq(fs, filterPredicate)

\* slice with an inclusive upper index taken for an exclusive one.
sliceShort(arr, i, j) ==
  LET hi == IF j > Len(arr) THEN Len(arr) ELSE j
  IN  SubSeq(arr, i + 1, hi - 1)

\* arr.slice(i, j) with 0-based i, j (j exclusive, clipped to the length).
slice(arr, i, j) ==
  LET hi == IF j > Len(arr) THEN Len(arr) ELSE j
  IN  SubSeq(arr, i + 1, hi)

RECURSIVE chunkFrom(_, _, _, _)
chunkFrom(arr, size, i, out) ==
  IF i < Len(arr)
    THEN chunkFrom(arr, size, i + size, Append(out, slice(arr, i, i + size)))
    ELSE out

chunk(arr, size) == chunkFrom(arr, size, 0, <<>>)

stat(type, field, outName) ==
  [statisticType |-> type, onStatisticField |-> field,
   outStatisticFieldName |-> outName]

alias(name, st) == name \o <<"_">> \o st

\* The statistic names pushed for one field of a batch.
statNamesFor(type) ==
  IF isObjectId(type) THEN <<s_min, s_max, s_avg, s_sum, s_count>>
  ELSE IF isNumeric(type) THEN <<s_min, s_max, s_avg, s_sum, s_count>>
  ELSE IF isDate(type) THEN <<s_min, s_max, s_count>>
  ELSE <<>>

statsDefsForField(f) ==
  LET sts == statNamesFor(f.type)
  IN  [k \in 1..Len(sts) |-> stat(sts[k], f.name, alias(f.name, sts[k]))]

RECURSIVE statsDefsFor(_)
statsDefsFor(batch) ==
  IF batch = <<>> THEN <<>>
  ELSE statsDefsForField(Head(batch)) \o statsDefsFor(Tail(batch))

\* obj[name] is truthy: an own key holding a record, or an inherited member.
truthy(bucket, name) ==
  name \in DOMAIN bucket \/ name \in ObjectPrototypeKeys

\* if (!bucket[name]) bucket[name] = {};
createRecord(bucket, name) ==
  IF truthy(bucket, name) THEN bucket ELSE (name :> <<>>) @@ bucket

\* The record-creating part of the inner loop over one batch.
createField(out, f) ==
  IF isObjectId(f.type)
    THEN [out EXCEPT !.objectid = createRecord(@, f.name)]
  ELSE IF isNumeric(f.type)
    THEN [out EXCEPT !.numeric = createRecord(@, f.name)]
  ELSE IF isDate(f.type)
    THEN [out EXCEPT !.date = createRecord(@, f.name)]
  ELSE out

RECURSIVE createBatch(_, _)
createBatch(out, batch) ==
  IF batch = <<>> THEN out
  ELSE createBatch(createField(out, Head(batch)), Tail(batch))

\* key.match(/(.+)_([a-z]+)$/): the split position, 0 when there is no match.
\* The suffix holds no "_", so only the last "_" of the key can be the split.
matchAt(key) ==
  LET cands == {i \in 2..(Len(key) - 1) :
                   /\ key[i] = "_"
                   /\ \A j \in (i + 1)..Len(key) : key[j] \in Lower}
  IN  IF cands = {} THEN 0
      ELSE CHOOSE i \in cands : \A k \in cands : k <= i

\* obj[statType] = value on a record.
setStat(rec, statType, value) == (statType :> value) @@ rec

\* One iteration of "for (const key in attrs)"; st = [out, proto].
mergeKey(st, key, value) ==
  LET m == matchAt(key) IN
  IF m = 0 THEN st
  ELSE
    LET fieldName == SubSeq(key, 1, m - 1)
        statType  == SubSeq(key, m + 1, Len(key))
        own(b)    == fieldName \in DOMAIN b
        inh       == fieldName \in ObjectPrototypeKeys
        wrProto   == [st EXCEPT !.proto[fieldName] = setStat(@, statType, value)]
    IN
      IF own(st.out.objectid)
        THEN [st EXCEPT !.out.objectid[fieldName] = setStat(@, statType, value)]
      ELSE IF inh THEN wrProto
      ELSE IF own(st.out.numeric)
        THEN [st EXCEPT !.out.numeric[fieldName] = setStat(@, statType, value)]
      ELSE IF own(st.out.date)
        THEN [st EXCEPT !.out.date[fieldName] = setStat(@, statType, value)]
      ELSE st

RECURSIVE mergeKeys(_, _, _)
mergeKeys(st, attrs, keys) ==
  IF keys = {} THEN st
  ELSE LET k == CHOOSE k \in keys : TRUE
       IN  mergeKeys(mergeKey(st, k, attrs[k]), attrs, keys \ {k})

merge(st, attrs) == mergeKeys(st, attrs, DOMAIN attrs)

\* resp?.features?.[0]?.attributes || {}
\* A JSON object is a function over its keys; a missing key is undefined.
attrsOf(resp) ==
  IF "features" \notin DOMAIN resp THEN <<>>
  ELSE IF Len(resp.features) = 0 THEN <<>>
  ELSE IF "attributes" \notin DOMAIN resp.features[1] THEN <<>>
  ELSE resp.features[1].attributes

\* The alias of the count aggregate of the grouped query.
value_count == <<"v","a","l","u","e","_","c","o","u","n","t">>

\* response.features?.map(f => ({value: ..., count: ...})) || []
valuesOf(resp, name) ==
  IF "features" \notin DOMAIN resp THEN <<>>
  ELSE [k \in 1..Len(resp.features) |->
          [value |-> resp.features[k].attributes[name],
           count |-> resp.features[k].attributes[value_count]]]

RECURSIVE reduceSum(_, _)
\* values.reduce((sum, v) => sum + v.count, 0)
reduceSum(values, sum) ==
  IF values = <<>> THEN sum
  ELSE reduceSum(Tail(values), sum + Head(values).count)

\* uniqueCount taken as the number of different values.
stringStatsDistinct(values) ==
  [values |-> values, count |-> reduceSum(values, 0),
   uniqueCount |-> Cardinality({values[k].value : k \in DOMAIN values})]

\* The StringStats literal assigned to output.string[name].
stringStats(values) ==
  [values |-> values, count |-> reduceSum(values, 0),
   uniqueCount |-> Len(values)]

\* output.string[name] = {...}: an assignment always makes an own key.
setString(out, name, stats) ==
  [out EXCEPT !.string = (name :> stats) @@ @]

emptyOutput == [numeric |-> <<>>, string |-> <<>>, date |-> <<>>,
                objectid |-> <<>>]

\* The three URLs the function builds, kept structured.
schemaUrl == [path |-> "layer", f |-> "json"]

batchUrl(batch) ==
  [path |-> "query", f |-> "json", where |-> "1=1",
   returnGeometry |-> FALSE, outStatistics |-> statsDefsFor(batch)]

groupQuery(name) ==
  [path |-> "query", f |-> "json", where |-> "1=1",
   returnGeometry |-> FALSE, groupByFieldsForStatistics |-> name,
   outStatistics |-> <<stat(s_count, name, value_count)>>]

\* The next index >= from of a string field, 0 when the loop is over.
nextString(fs, from) ==
  LET c == {i \in from..Len(fs) : isString(fs[i].type)}
  IN  IF c = {} THEN 0 ELSE CHOOSE i \in c : \A k \in c : i <= k

\* res.ok
ok(status) == status \in 200..299

\* A sleep that resolves at once.
sleepNone(ms) == 0

\* sleep(ms): the time that has passed when the promise resolves.
sleep(ms) == ms

(***************************************************************************)
(* What the remote layer may answer.                                       *)
(***************************************************************************)
RECURSIVE SeqsUpTo(_, _)
SeqsUpTo(S, n) ==
  IF n = 0 THEN {<<>>}
  ELSE LET prev == SeqsUpTo(S, n - 1)
       IN  prev \cup {Append(q, e) : q \in {p \in prev : Len(p) = n - 1}, e \in S}

Distinct(fs) == \A i, j \in DOMAIN fs : i # j => fs[i].name # fs[j].name

\* Schemas: at most n fields with pairwise different names.
Schemas(n) ==
  {fs \in SeqsUpTo([name : Names, type : TypeTags], n) : Distinct(fs)}

a_MIN == <<"a","_","M","I","N">>

\* Keys a batch response may carry: aliases of any field of the layer, and a
\* key the regular expression rejects.
RespKeys ==
  {alias(n, s_min) : n \in Names} \cup {alias(n_a, s_max), a_MIN}

\* The dataset does not change: a statistic has one value.
datasetStat(key) ==
  IF key = alias(n_a, s_min) THEN 10
  ELSE IF key = alias(n_a, s_max) THEN 500
  ELSE IF key = alias(n_value_count, s_min) THEN 20
  ELSE IF key = alias(n_constructor, s_min) THEN 30
  ELSE 40

AttrMaps ==
  {[k \in K |-> datasetStat(k)] :
     K \in {S \in SUBSET RespKeys : Cardinality(S) <= MaxKeys}}

BatchBodies ==
  {<<>>, [features |-> <<>>]} \cup {[features |-> <<[attributes |-> m]>>] : m \in AttrMaps}

\* The groups of the dataset, in the order the remote reports them.
datasetGroups ==
  << [value |-> "CA", count |-> 3], [value |-> "NY", count |-> 2],
     [value |-> null, count |-> 1] >>

\* The JSON row of one group: the group's value under the field's name and
\* the count under the alias (one key when the two names are the same).
rowOf(name, g) ==
  [attributes |-> (value_count :> g.count) @@ (name :> g.value)]

groupedBody(name, gs) == [features |-> [k \in 1..Len(gs) |-> rowOf(name, gs[k])]]

VARIABLES
  serverFields,      \* the schema the remote layer serves
  httpRequestCount,  \* the module-level counter
  objectPrototype,   \* properties written on inherited members
  pc,                \* "idle", "sleep", "fetch", "resume"
  url,               \* getJson's argument
  waited,            \* ms passed since getJson was called
  res,               \* the response fetch resolved with
  fields, output, batches, bi, si,   \* locals of getOpenDataStyleStatistics
  result,            \* how the promise of the run settled
  runsLeft,          \* runs the caller will still start
  inFlight,          \* requests sent and not yet answered
  sent,              \* URLs fetched by the current run, in order
  built,             \* requests the current run has built
  merged,            \* responses the current run has merged
  countAtStart,      \* httpRequestCount when the current run started
  call, ret          \* a helper called on its own, and what it returned

vars == <<serverFields, httpRequestCount, objectPrototype, pc, url, waited, res,
          fields, output, batches, bi, si, result, runsLeft, inFlight, sent,
          built, merged, countAtStart, call, ret>>

noRes == [status |-> 0]
noCall == [fn |-> "none"]

\* The module after loading, before main runs.
Loaded ==
  /\ httpRequestCount = 0
  /\ objectPrototype = [k \in ObjectPrototypeKeys |-> <<>>]
  /\ pc = "idle"
  /\ url = [path |-> "none"]
  /\ waited = 0
  /\ res = noRes
  /\ fields = <<>>
  /\ output = emptyOutput
  /\ batches = <<>>
  /\ bi = 0
  /\ si = 0
  /\ result = [kind |-> "none"]
  /\ inFlight = 0
  /\ sent = <<>>
  /\ built = 0
  /\ merged = 0
  /\ countAtStart = 0

Init ==
  /\ Loaded
  /\ serverFields \in Schemas(MaxFields)
  /\ runsLeft = 1
  /\ call = noCall
  /\ ret = noCall

\* resetHttpRequestCount(), called by the caller between runs.
resetHttpRequestCount ==
  /\ pc = "idle"
  /\ httpRequestCount' = 0
  /\ UNCHANGED <<serverFields, objectPrototype, pc, url, waited, res, fields,
                 output, batches, bi, si, result, runsLeft, inFlight, sent,
                 built, merged, countAtStart, call, ret>>

\* The caller invokes getOpenDataStyleStatistics: the function runs up to the
\* first await, the sleep inside getJson(`${featureLayerUrl}?f=json`).
Start ==
  /\ pc = "idle"
  /\ runsLeft > 0
  /\ runsLeft' = runsLeft - 1
  /\ url' = schemaUrl
  /\ waited' = 0
  /\ pc' = "sleep"
  /\ fields' = <<>>
  /\ output' = emptyOutput
  /\ batches' = <<>>
  /\ bi' = 0
  /\ si' = 0
  /\ result' = [kind |-> "pending"]
  /\ sent' = <<>>
  /\ built' = 1
  /\ merged' = 0
  /\ countAtStart' = httpRequestCount
  /\ UNCHANGED <<serverFields, httpRequestCount, objectPrototype, res,
                 inFlight, call, ret>>

\* fetch called without await: getJson goes on while the request is out.
getJsonSendNoAwait ==
  /\ pc = "sleep"
  /\ inFlight < 3
  /\ waited' = waited + sleep(SLEEP_MS)
  /\ httpRequestCount' = httpRequestCount + 1
  /\ inFlight' = inFlight + 1
  /\ sent' = Append(sent, url)
  /\ pc' = "sleep"
  /\ UNCHANGED <<serverFields, objectPrototype, url, res, fields, output,
                 batches, bi, si, result, runsLeft, built, merged,
                 countAtStart, call, ret>>

\* getJson once "await sleep(500)" is over: count the request and call fetch.
getJsonSend ==
  /\ pc = "sleep"
  /\ waited' = waited + sleep(SLEEP_MS)
  /\ httpRequestCount' = httpRequestCount + 1
  /\ inFlight' = inFlight + 1
  /\ sent' = Append(sent, url)
  /\ pc' = "fetch"
  /\ UNCHANGED <<serverFields, objectPrototype, url, res, fields, output,
                 batches, bi, si, result, runsLeft, built, merged,
                 countAtStart, call, ret>>

\* The remote answers the outstanding request.
Respond ==
  /\ pc = "fetch"
  /\ inFlight' = inFlight - 1
  /\ pc' = "resume"
  /\ \E status \in Statuses :
       IF ~ok(status)
         THEN res' = [status |-> status]
       ELSE IF url.path = "layer"
         THEN res' = [status |-> status, body |-> [fields |-> serverFields]]
       ELSE IF "groupByFieldsForStatistics" \in DOMAIN url
         THEN \E k \in 0..Len(datasetGroups), shaped \in BOOLEAN :
                LET gs == IF shaped THEN SubSeq(datasetGroups, 1, k) ELSE <<>> IN
                res' = [status |-> status, groups |-> gs,
                        body |-> IF shaped
                                   THEN groupedBody(url.groupByFieldsForStatistics, gs)
                                   ELSE <<>>]
       ELSE \E b \in BatchBodies : res' = [status |-> status, body |-> b]
  /\ UNCHANGED <<serverFields, httpRequestCount, objectPrototype, url, waited,
                 fields, output, batches, bi, si, result, runsLeft, sent, built,
                 merged, countAtStart, call, ret>>

\* The rest of the function from the top of the batch loop at batch b (or of
\* the string loop at field s) up to the next await or the return.
Continue(o, bs, fs, b, s) ==
  IF b <= Len(bs)
    THEN /\ output' = createBatch(o, bs[b])
         /\ url' = batchUrl(bs[b])
         /\ bi' = b
         /\ si' = 0
         /\ pc' = "sleep"
         /\ waited' = 0
         /\ built' = built + 1
         /\ UNCHANGED result
  ELSE IF nextString(fs, s) # 0
    THEN /\ output' = o
         /\ url' = groupQuery(fs[nextString(fs, s)].name)
         /\ bi' = b
         /\ si' = nextString(fs, s)
         /\ pc' = "sleep"
         /\ waited' = 0
         /\ built' = built + 1
         /\ UNCHANGED result
  ELSE /\ output' = o
       /\ bi' = b
       /\ si' = Len(fs) + 1
       /\ pc' = "idle"
       /\ result' = [kind |-> "ok", value |-> o]
       /\ UNCHANGED <<url, waited, built>>

\* The error caught inside the run, which returns what it gathered so far.
getJsonSwallow ==
  /\ pc = "resume"
  /\ ~ok(res.status)
  /\ result' = [kind |-> "ok", value |-> output]
  /\ pc' = "idle"
  /\ res' = noRes
  /\ UNCHANGED <<serverFields, httpRequestCount, objectPrototype, url, waited,
                 fields, output, batches, bi, si, runsLeft, inFlight, sent,
                 built, merged, countAtStart, call, ret>>

\* if (!res.ok) throw new Error(`HTTP Error: ${res.status} - ${url}`);
\* nothing in getOpenDataStyleStatistics catches it.
getJsonThrow ==
  /\ pc = "resume"
  /\ ~ok(res.status)
  /\ result' = [kind |-> "error", status |-> res.status, url |-> url]
  /\ pc' = "idle"
  /\ res' = noRes
  /\ UNCHANGED <<serverFields, httpRequestCount, objectPrototype, url, waited,
                 fields, output, batches, bi, si, runsLeft, inFlight, sent,
                 built, merged, countAtStart, call, ret>>

\* The schema arrived: steps 1 and 2, then on to the loops.
onLayerInfo ==
  /\ pc = "resume"
  /\ ok(res.status)
  /\ url.path = "layer"
  /\ fields' = res.body.fields
  /\ batches' = chunk(numericOrDateOrObjectIdFields(res.body.fields), STATS_BATCH_SIZE)
  /\ merged' = merged + 1
  /\ res' = noRes
  /\ Continue(emptyOutput, batches', fields', 1, 1)
  /\ UNCHANGED <<serverFields, httpRequestCount, objectPrototype, runsLeft,
                 inFlight, sent, countAtStart, call, ret>>

\* A batch response arrived: merge it, then on to the next batch.
onBatchResponse ==
  /\ pc = "resume"
  /\ ok(res.status)
  /\ url.path = "query"
  /\ "groupByFieldsForStatistics" \notin DOMAIN url
  /\ LET st == merge([out |-> output, proto |-> objectPrototype], attrsOf(res.body))
     IN  /\ objectPrototype' = st.proto
         /\ Continue(st.out, batches, fields, bi + 1, 1)
  /\ merged' = merged + 1
  /\ res' = noRes
  /\ UNCHANGED <<serverFields, httpRequestCount, fields, batches, runsLeft,
                 inFlight, sent, countAtStart, call, ret>>

\* A grouped response arrived: reduce it, then on to the next string field.
onGroupResponse ==
  /\ pc = "resume"
  /\ ok(res.status)
  /\ url.path = "query"
  /\ "groupByFieldsForStatistics" \in DOMAIN url
  /\ LET name == fields[si].name
         o    == setString(output, name, stringStats(valuesOf(res.body, name)))
     IN  Continue(o, batches, fields, bi, si + 1)
  /\ merged' = merged + 1
  /\ res' = noRes
  /\ UNCHANGED <<serverFields, httpRequestCount, objectPrototype, fields,
                 batches, runsLeft, inFlight, sent, countAtStart, call, ret>>

Next ==
  \/ resetHttpRequestCount
  \/ Start
  \/ getJsonSend
  \/ Respond
  \/ getJsonThrow
  \/ onLayerInfo
  \/ onBatchResponse
  \/ onGroupResponse

Spec == Init /\ [][Next]_vars

(***************************************************************************)
(* Several runs one after the other, with or without a reset in between.   *)
(***************************************************************************)
InitRuns ==
  /\ Loaded
  /\ serverFields \in Schemas(RunFields)
  /\ runsLeft = MaxRuns
  /\ call = noCall
  /\ ret = noCall

SpecRuns == InitRuns /\ [][Next]_vars

(***************************************************************************)
(* chunk called on its own, on every small array and batch size.           *)
(***************************************************************************)
ChunkItems == {"x", "y"}

InitChunk ==
  /\ Loaded
  /\ serverFields = <<>>
  /\ runsLeft = 0
  /\ call \in {[fn |-> "chunk", arr |-> a, size |-> n] :
                 a \in SeqsUpTo(ChunkItems, MaxLen), n \in 1..MaxSize}
  /\ ret = noCall

callChunk ==
  /\ call.fn = "chunk"
  /\ ret = noCall
  /\ ret' = [fn |-> "chunk", value |-> chunk(call.arr, call.size)]
  /\ UNCHANGED <<serverFields, httpRequestCount, objectPrototype, pc, url,
                 waited, res, fields, output, batches, bi, si, result,
                 runsLeft, inFlight, sent, built, merged, countAtStart, call>>

NextChunk == callChunk

SpecChunk == InitChunk /\ [][NextChunk]_vars

(***************************************************************************)
(* The reduction of a grouped response, on every small response.           *)
(***************************************************************************)
Groups == SeqsUpTo([value : GroupValues, count : 0..MaxCount], MaxRows)

InitReduce ==
  /\ Loaded
  /\ serverFields = <<>>
  /\ runsLeft = 0
  /\ call \in {[fn |-> "reduce", name |-> n, body |-> groupedBody(n, gs)] :
                 n \in Names, gs \in Groups}
            \cup {[fn |-> "reduce", name |-> n, body |-> <<>>] : n \in Names}
  /\ ret = noCall

\* The body of the string loop after the await, for one field.
callReduce ==
  /\ call.fn = "reduce"
  /\ ret = noCall
  /\ ret' = [fn |-> "reduce",
             value |-> setString(emptyOutput, call.name,
                                 stringStats(valuesOf(call.body, call.name)))]
  /\ UNCHANGED <<serverFields, httpRequestCount, objectPrototype, pc, url,
                 waited, res, fields, output, batches, bi, si, result,
                 runsLeft, inFlight, sent, built, merged, countAtStart, call>>

NextReduce == callReduce

SpecReduce == InitReduce /\ [][NextReduce]_vars

(***************************************************************************)
(* Properties.                                                             *)
(***************************************************************************)
RECURSIVE Flatten(_)
Flatten(ss) == IF ss = <<>> THEN <<>> ELSE Head(ss) \o Flatten(Tail(ss))

\* C10: for every non-empty array and every batch size >= 1, chunk returns
\* non-empty batches of at most the batch size, all but the last of exactly
\* the batch size, whose concatenation in order is the array.
C10_ChunkPartition ==
  (ret.fn = "chunk" /\ Len(call.arr) > 0) =>
    /\ Len(ret.value) > 0
    /\ Flatten(ret.value) = call.arr
    /\ \A k \in DOMAIN ret.value :
         /\ Len(ret.value[k]) >= 1
         /\ Len(ret.value[k]) <= call.size
         /\ k < Len(ret.value) => Len(ret.value[k]) = call.size

\* A call whose last batch is smaller than the others.
C10_Witness ==
  /\ ret.fn = "chunk"
  /\ Len(call.arr) = 4
  /\ call.size = 3
  /\ Len(ret.value) = 2
  /\ Len(ret.value[2]) = 1

\* The rows of a grouped body (none when it has no features).
RowsOf(body) == IF "features" \in DOMAIN body THEN body.features ELSE <<>>

SumOfCounts(values) ==
  LET S[k \in 0..Len(values)] ==
        IF k = 0 THEN 0 ELSE S[k - 1] + values[k].count
  IN  S[Len(values)]

\* C5: the record of a categorical field has one values entry per response
\* row, in response order, a null group included; its count is the sum of
\* the entries' counts and its uniqueCount the number of entries; without
\* rows it is {values: [], count: 0, uniqueCount: 0}.
C5_CategoricalReduction ==
  ret.fn = "reduce" =>
    LET rows == RowsOf(call.body)
        r    == ret.value.string[call.name]
    IN  /\ DOMAIN ret.value.string = {call.name}
        /\ Len(r.values) = Len(rows)
        /\ \A k \in DOMAIN rows :
             /\ r.values[k].value = rows[k].attributes[call.name]
             /\ r.values[k].count = rows[k].attributes[value_count]
        /\ r.count = SumOfCounts(r.values)
        /\ r.uniqueCount = Len(r.values)
        /\ rows = <<>> => r = [values |-> <<>>, count |-> 0, uniqueCount |-> 0]

\* Two rows of the same value, one of them the null group.
C5_Witness ==
  /\ ret.fn = "reduce"
  /\ call.name = n_a
  /\ Len(RowsOf(call.body)) = 2
  /\ ret.value.string[n_a].values[1].value = null
  /\ ret.value.string[n_a].values[2].value = null
  /\ ret.value.string[n_a].count = 3
  /\ ret.value.string[n_a].uniqueCount = 2
(***************************************************************************)
(* The categories of the field classifier and their output buckets.        *)
(***************************************************************************)
NumericTags ==
  {"esriFieldTypeInteger", "esriFieldTypeSmallInteger",
   "esriFieldTypeDouble", "esriFieldTypeSingle"}

Category(type) ==
  IF type \in NumericTags THEN "Numeric"
  ELSE IF type = "esriFieldTypeDate" THEN "Temporal"
  ELSE IF type = "esriFieldTypeOID" THEN "RowIdentifier"
  ELSE IF type = "esriFieldTypeString" THEN "Categorical"
  ELSE "Unsupported"

BucketOf(type) ==
  IF Category(type) = "Numeric" THEN "numeric"
  ELSE IF Category(type) = "Temporal" THEN "date"
  ELSE IF Category(type) = "RowIdentifier" THEN "objectid"
  ELSE IF Category(type) = "Categorical" THEN "string"
  ELSE "none"

Buckets == {"numeric", "date", "objectid", "string"}
StatBuckets == {"numeric", "date", "objectid"}

NonCategorical(fs) ==
  {i \in DOMAIN fs : Category(fs[i].type) \in {"Numeric", "Temporal", "RowIdentifier"}}

Categorical(fs) == {i \in DOMAIN fs : Category(fs[i].type) = "Categorical"}

ExpectedBatches(fs) ==
  (Cardinality(NonCategorical(fs)) + STATS_BATCH_SIZE - 1) \div STATS_BATCH_SIZE

ExpectedRequests(fs) == 1 + ExpectedBatches(fs) + Cardinality(Categorical(fs))

IsGroupUrl(u) == "groupByFieldsForStatistics" \in DOMAIN u
IsBatchUrl(u) == u.path = "query" /\ ~IsGroupUrl(u)

\* The fields a request asks statistics for.
QueriedNames(u) ==
  IF u.path = "query"
    THEN {u.outStatistics[k].onStatisticField : k \in DOMAIN u.outStatistics}
    ELSE {}

\* C1: a successful run started with the counter at 0 fetches the schema once,
\* one batch per STATS_BATCH_SIZE numeric, date or object-id fields and one
\* grouped query per string field; the counter ends at that number and no
\* field of an unsupported type is asked for.
C1_RequestCount ==
  [][ (result.kind = "pending" /\ result'.kind = "ok" /\ countAtStart = 0) =>
        /\ httpRequestCount' = ExpectedRequests(serverFields)
        /\ Len(sent') = ExpectedRequests(serverFields)
        /\ Cardinality({k \in DOMAIN sent' : sent'[k].path = "layer"}) = 1
        /\ Cardinality({k \in DOMAIN sent' : IsBatchUrl(sent'[k])})
             = ExpectedBatches(serverFields)
        /\ Cardinality({k \in DOMAIN sent' : IsGroupUrl(sent'[k])})
             = Cardinality(Categorical(serverFields))
        /\ \A k \in DOMAIN sent' : \A n \in QueriedNames(sent'[k]) :
             \E i \in DOMAIN serverFields :
               /\ serverFields[i].name = n
               /\ Category(serverFields[i].type) # "Unsupported"
    ]_vars

\* A run over one date field and one string field ended after three requests.
C1_Witness ==
  /\ result.kind = "ok"
  /\ countAtStart = 0
  /\ httpRequestCount = 3
  /\ Len(sent) = 3
  /\ \E i, j \in DOMAIN serverFields :
       /\ serverFields[i].type = "esriFieldTypeDate"
       /\ serverFields[j].type = "esriFieldTypeString"

\* C2: a response with a non-success status ends the run at once with an
\* error carrying the status and the URL; the run sends nothing more, the
\* request is not sent again and no statistics value is returned.
C2_AbortOnError ==
  [][ /\ (pc = "resume" /\ ~ok(res.status)) =>
           /\ result' = [kind |-> "error", status |-> res.status, url |-> url]
           /\ sent[Len(sent)] = url
           /\ "value" \notin DOMAIN result'
           /\ pc' = "idle"
           /\ sent' = sent
           /\ inFlight' = 0
      /\ (result.kind = "error" /\ runsLeft' = runsLeft) =>
           /\ result' = result
           /\ sent' = sent
           /\ inFlight' = 0
           /\ pc' = "idle"
    ]_vars

\* The second request failed with 500 after a record had been created.
C2_Witness ==
  /\ result.kind = "error"
  /\ result.status = 500
  /\ Len(sent) = 2
  /\ result.url = sent[2]
  /\ output.numeric # <<>>

\* C3: at most one request is outstanding, and a request is built and sent
\* only when every earlier response of the run has been merged.
C3_Sequential ==
  /\ inFlight <= 1
  /\ Len(sent) <= built
  /\ pc \in {"sleep", "fetch", "resume"} => built = merged + 1
  /\ pc = "sleep" => Len(sent) = merged /\ inFlight = 0
  /\ pc = "fetch" => Len(sent) = merged + 1 /\ inFlight = 1
  /\ result.kind = "ok" => built = merged /\ Len(sent) = merged

\* The third request is outstanding and two responses have been merged.
C3_Witness ==
  /\ inFlight = 1
  /\ merged = 2
  /\ built = 3
  /\ Len(sent) = 3

\* C4: every request is sent after the fixed delay and adds exactly one to
\* the counter; no response, success or failure, and no start of a run
\* changes the counter, only resetHttpRequestCount sets it to 0.
C4_DelayAndCount ==
  [][ /\ inFlight' > inFlight =>
           /\ pc = "sleep"
           /\ waited' - waited >= SLEEP_MS
           /\ inFlight' = inFlight + 1
           /\ httpRequestCount' = httpRequestCount + 1
      /\ httpRequestCount' # httpRequestCount =>
           \/ inFlight' = inFlight + 1 /\ httpRequestCount' = httpRequestCount + 1
           \/ pc = "idle" /\ pc' = "idle" /\ httpRequestCount' = 0
                /\ runsLeft' = runsLeft
      /\ waited' < waited => waited' = 0 /\ pc' = "sleep"
    ]_vars

\* The second run, started without a reset after a first run of one request,
\* has slept and sent its own first request: the counter holds both.
C4_Witness ==
  /\ runsLeft = 0
  /\ pc = "fetch"
  /\ countAtStart = 1
  /\ httpRequestCount = 2
  /\ Len(sent) = 1
  /\ waited = SLEEP_MS

BatchNames == {batches[bi][k].name : k \in DOMAIN batches[bi]}

IsBatchStep ==
  pc = "resume" /\ ok(res.status) /\ IsBatchUrl(url)

\* C6: a record is created once and changes only while the response of the
\* batch holding its field is merged; that merge writes every key
\* <field>_<statistic> of a field of the batch into the record of that field
\* in the bucket of its type, whatever else the attribute map holds.
C6_MergeFrame ==
  [][ /\ \A b \in StatBuckets : \A n \in DOMAIN output[b] \cap DOMAIN output'[b] :
           output'[b][n] # output[b][n] => IsBatchStep /\ n \in BatchNames
      /\ IsBatchStep =>
           /\ \A b \in StatBuckets : \A n \in DOMAIN output[b] : n \in DOMAIN output'[b]
           /\ \A k \in DOMAIN batches[bi] : \A st \in {s_min, s_max, s_avg, s_sum, s_count} :
                LET f   == batches[bi][k]
                    key == alias(f.name, st)
                    att == attrsOf(res.body)
                IN  key \in DOMAIN att =>
                      /\ f.name \in DOMAIN output'[BucketOf(f.type)]
                      /\ st \in DOMAIN output'[BucketOf(f.type)][f.name]
                      /\ output'[BucketOf(f.type)][f.name][st] = att[key]
    ]_vars

\* C7: after a successful run every field is a key of the bucket of its
\* type's category and of no other bucket, a field of an unsupported type of
\* none, and no field was asked for twice.
C7_OneBucket ==
  result.kind = "ok" =>
    /\ \A i \in DOMAIN serverFields :
         \A b \in Buckets :
           (serverFields[i].name \in DOMAIN result.value[b])
             <=> (b = BucketOf(serverFields[i].type))
    /\ \A j, k \in DOMAIN sent :
         j # k => QueriedNames(sent[j]) \cap QueriedNames(sent[k]) = {}

\* C8: the alias of the count aggregate differs from the name of the grouped
\* field, and every values entry holds the group's value and its count.
C8_AliasDistinct ==
  (pc \in {"sleep", "fetch", "resume"} /\ IsGroupUrl(url)) =>
    /\ url.outStatistics[1].outStatisticFieldName # url.groupByFieldsForStatistics
    /\ (pc = "resume" /\ ok(res.status)) =>
         LET vs == valuesOf(res.body, url.groupByFieldsForStatistics)
         IN  /\ Len(vs) = Len(res.groups)
             /\ \A k \in DOMAIN vs :
                  /\ vs[k].value = res.groups[k].value
                  /\ vs[k].count = res.groups[k].count

\* C9: a successful batch response without rows writes nothing, leaves the
\* records of the batch's fields present and empty in their buckets, and the
\* run goes on to the next request or returns.
C9_NoRows ==
  [][ (IsBatchStep /\ RowsOf(res.body) = <<>>) =>
        /\ attrsOf(res.body) = <<>>
        /\ objectPrototype' = objectPrototype
        /\ \A b \in StatBuckets : \A n \in DOMAIN output[b] :
             n \in DOMAIN output'[b] /\ output'[b][n] = output[b][n]
        /\ \A k \in DOMAIN batches[bi] :
             LET f == batches[bi][k]
             IN  /\ f.name \in DOMAIN output'[BucketOf(f.type)]
                 /\ output'[BucketOf(f.type)][f.name] = <<>>
        /\ result'.kind # "error"
        /\ pc' = "sleep" \/ result'.kind = "ok"
    ]_vars
====
